---- MODULE Spec2Model ----
(***************************************************************************)
(* Model of src/generate_dataset.py: generate_song_metadata and            *)
(* generate_listening_logs.  Strings that the code builds or takes apart   *)
(* (identifiers, titles) are sequences of one-character strings; a         *)
(* datetime is a record [sec, us] of whole seconds since an epoch and      *)
(* microseconds; a formatted timestamp is a record of its printed fields.  *)
(* Every call to the random module is a nondeterministic choice.           *)
(*                                                                         *)
(* pc is the place in the function being run, k the number of iterations   *)
(* of the log loop done, exc the exception raised, result the table        *)
(* returned.  iter holds the locals of the last iteration (user_id, song,  *)
(* timestamp), which rule assigned song, and how each rule's               *)
(* random.random() test came out.                                          *)
(*                                                                         *)
(* generate_listening_logs is explored from four sets of arguments and     *)
(* draws: Spec (populations and tables), SpecBoth (35 users), SpecLoop     *)
(* (the loop, with fairness) and SpecDraws (the clock and the randint      *)
(* draws); SpecSongs explores generate_song_metadata.                      *)
(***************************************************************************)
EXTENDS Integers, Sequences, FiniteSets, TLC

VARIABLES pc, num_songs, songs_df, num_logs, num_users, songs, user_ids,
          logs, k, now, start_date, end_date, total_seconds, loyal_users,
          exc, iter, result

vars == <<pc, num_songs, songs_df, num_logs, num_users, songs, user_ids,
          logs, k, now, start_date, end_date, total_seconds, loyal_users,
          exc, iter, result>>

(***************************************************************************)
(* Bounds of the model.                                                    *)
(***************************************************************************)
\* largest num_songs passed to generate_song_metadata
MaxSongs == 2
\* largest num_logs passed to generate_listening_logs
MaxLogs == 2
\* largest num_users passed to generate_listening_logs
MaxUsers == 7
\* random.randint(lo, hi) is drawn within EdgeWidth of either end
EdgeWidth == 0
\* datetime.now() is read within MaxNowSec seconds after the model's epoch
MaxNowSec == 0

(***************************************************************************)
(* Python values.                                                          *)
(***************************************************************************)
\* None, and a raised exception, as records so that they compare with the
\* records (tables, rows, datetimes) they stand in for
None == [none |-> TRUE]
Raised(e) == [exception |-> e]

Digit == <<"0", "1", "2", "3", "4", "5", "6", "7", "8", "9">>

\* str(n) of a non-negative int: its decimal digits
RECURSIVE str(_)
str(n) == IF n < 10 THEN <<Digit[n + 1]>>
          ELSE str(n \div 10) \o <<Digit[(n % 10) + 1]>>

IsDigit(c) == \E d \in 1..10 : Digit[d] = c

DigitVal(c) == (CHOOSE d \in 1..10 : Digit[d] = c) - 1

\* int(s) of a string of decimal digits; "ValueError" otherwise
RECURSIVE int(_)
int(s) == IF s = <<>> \/ \E i \in 1..Len(s) : ~IsDigit(s[i]) THEN "ValueError"
          ELSE IF Len(s) = 1 THEN DigitVal(s[1])
          ELSE 10 * int(SubSeq(s, 1, Len(s) - 1)) + DigitVal(s[Len(s)])

\* s.split(sep) for a one-character separator: the list of fields
RECURSIVE split(_, _)
split(s, sep) ==
    IF \A i \in 1..Len(s) : s[i] # sep THEN <<s>>
    ELSE LET p == CHOOSE i \in 1..Len(s) :
                      s[i] = sep /\ \A j \in 1..(i - 1) : s[j] # sep
         IN  <<SubSeq(s, 1, p - 1)>> \o split(SubSeq(s, p + 1, Len(s)), sep)

\* range(n) as the ascending list 0 .. n-1 (empty for n <= 0)
range(n) == [i \in 1..n |-> i - 1]

\* random.choice(seq): any element of a non-empty list
random_choice(seq) == {seq[i] : i \in 1..Len(seq)}

(***************************************************************************)
(* pandas: a DataFrame is a record of equally long columns.                *)
(***************************************************************************)
\* pd.DataFrame(data) for a dict of columns
DataFrameOfColumns(data) == data

\* pd.DataFrame(records) for a list of dicts with the same keys
DataFrameOfRecords(records) ==
    IF records = <<>> THEN <<>>
    ELSE [c \in DOMAIN records[1] |->
              [i \in 1..Len(records) |-> records[i][c]]]

\* len(df)
nrows(df) == IF DOMAIN df = {} THEN 0
             ELSE Len(df[CHOOSE c \in DOMAIN df : TRUE])

\* df.to_dict(orient="records")
to_dict_records(df) == [i \in 1..nrows(df) |-> [c \in DOMAIN df |-> df[c][i]]]

(***************************************************************************)
(* generate_song_metadata                                                  *)
(***************************************************************************)
artists_list == <<"Artist A", "Artist B", "Artist C", "Artist D", "Artist E">>
genres_list == <<"Pop", "Rock", "Jazz", "Hip-Hop", "Classical">>
moods_list == <<"Happy", "Sad", "Energetic", "Chill">>

\* song_id_of numbering from 0: f"song_{i}"
song_id_of_zero_based(i) == <<"s", "o", "n", "g", "_">> \o str(i)

\* f"song_{i+1}"
song_id_of(i) == <<"s", "o", "n", "g", "_">> \o str(i + 1)

\* f"Song {i+1}"
title_of(i) == <<"S", "o", "n", "g", " ">> \o str(i + 1)

\* the table built from the three drawn columns (lines 16-35)
song_metadata(n, artists, genres, moods) ==
    DataFrameOfColumns(
        [song_id |-> [j \in 1..n |-> song_id_of(range(n)[j])],
         title   |-> [j \in 1..n |-> title_of(range(n)[j])],
         artist  |-> artists,
         genre   |-> genres,
         mood    |-> moods])

\* the artists the model draws: the first and the last of artists_list
ArtistDraws == {artists_list[1], artists_list[Len(artists_list)]}

GenerateSongMetadata ==
    /\ pc = "generate_song_metadata"
    /\ \E as \in [1..num_songs -> ArtistDraws],
          gs \in [1..num_songs -> random_choice(genres_list)],
          ms \in [1..num_songs -> random_choice(moods_list)] :
           songs_df' = song_metadata(num_songs, as, gs, ms)
    /\ pc' = "metadata_returned"
    /\ UNCHANGED <<num_songs, num_logs, num_users, songs, user_ids, logs, k,
                   now, start_date, end_date, total_seconds, loyal_users,
                   exc, iter, result>>

InitSongs ==
    /\ pc = "generate_song_metadata"
    /\ num_songs \in 0..MaxSongs
    /\ songs_df = None
    /\ num_logs = 0 /\ num_users = 0
    /\ songs = <<>> /\ user_ids = <<>> /\ logs = <<>> /\ k = 0
    /\ now = None /\ start_date = None /\ end_date = None
    /\ total_seconds = 0
    /\ loyal_users = <<>>
    /\ exc = "" /\ iter = None /\ result = None

NextSongs == GenerateSongMetadata

SpecSongs == InitSongs /\ [][NextSongs]_vars

(***************************************************************************)
(* datetime                                                                *)
(***************************************************************************)
SecondsPerDay == 86400
MicrosPerSecond == 1000000

\* timedelta(days=d), timedelta(seconds=n): normalised to seconds and
\* microseconds
timedelta_days(d) == [sec |-> d * SecondsPerDay, us |-> 0]
timedelta_seconds(n) == [sec |-> n, us |-> 0]

\* datetime + timedelta
dt_add(t, d) ==
    [sec |-> t.sec + d.sec + ((t.us + d.us) \div MicrosPerSecond),
     us  |-> (t.us + d.us) % MicrosPerSecond]

\* datetime - timedelta
dt_sub(t, d) ==
    IF t.us >= d.us THEN [sec |-> t.sec - d.sec, us |-> t.us - d.us]
    ELSE [sec |-> t.sec - d.sec - 1, us |-> t.us + MicrosPerSecond - d.us]

\* datetime - datetime, a timedelta
dt_diff(a, b) == dt_sub(a, b)

\* int(td.total_seconds()) of a non-negative timedelta
int_total_seconds(d) == d.sec

\* a <= b on datetimes
dt_le(a, b) == a.sec < b.sec \/ (a.sec = b.sec /\ a.us <= b.us)

\* t.strftime("%Y-%m-%d %H:%M:%S"): the printed fields; the calendar date is
\* kept as the day number it stands for, the microseconds are not printed
strftime(t) ==
    [date |-> t.sec \div SecondsPerDay,
     H    |-> (t.sec % SecondsPerDay) \div 3600,
     M    |-> (t.sec % 3600) \div 60,
     S    |-> t.sec % 60]

\* the instant a printed timestamp denotes
strptime(ts) ==
    [sec |-> ts.date * SecondsPerDay + ts.H * 3600 + ts.M * 60 + ts.S,
     us  |-> 0]

(***************************************************************************)
(* generate_listening_logs                                                 *)
(***************************************************************************)
WindowDays == 30
LoyalEvery == 5
SadEvery == 7
LoyalProb == 85
SadProb == 80
MinDuration == 30
MaxDuration == 300

\* f"user_{i+1}"
user_id_of(i) == <<"u", "s", "e", "r", "_">> \o str(i + 1)

\* int(user_id.split("_")[1])
user_num_of(user_id) == int(split(user_id, "_")[2])

\* loyal_keys testing the 0-based position: i % 5 == 0
loyal_keys_zero_based(ids) ==
    {ids[j] : j \in {j \in 1..Len(ids) : range(Len(ids))[j] % 5 = 0}}

\* the keys of loyal_users: the users at the positions i with (i+1) % 5 == 0
loyal_keys(ids) ==
    {ids[j] : j \in {j \in 1..Len(ids) : (range(Len(ids))[j] + 1) % LoyalEvery = 0}}

\* random.random(), in hundredths: the values next to the two thresholds and
\* the two ends of [0, 1)
RandomUnit == {0, SadProb - 1, SadProb, LoyalProb - 1, LoyalProb, 99}

\* random.randint(lo, hi), both ends included: drawn within w of either end,
\* or, for w < 0, the one value in the middle
randint(lo, hi, w) ==
    IF w < 0 THEN {(lo + hi) \div 2}
    ELSE {x \in lo..(lo + w) : x <= hi} \cup {x \in (hi - w)..hi : x >= lo}

\* [s for s in songs if s[key] == value]
filter_songs(list, key, value) ==
    SelectSeq(list, LAMBDA s : s[key] = value)

\* loyalty_rule without the `if genre_songs:` guard: random.choice raises on
\* an empty pool
loyalty_rule_unguarded(user_id, loyal, list, r) ==
    IF user_id \in DOMAIN loyal
    THEN IF r < 85
         THEN LET genre_songs == filter_songs(list, "genre", loyal[user_id])
              IN  IF genre_songs # <<>>
                  THEN {[song |-> s, rule |-> "loyalty", loyal_draw |-> "hit"]
                           : s \in random_choice(genre_songs)}
                  ELSE {[song |-> Raised("IndexError"), rule |-> "none",
                         loyal_draw |-> "hit"]}
         ELSE {[song |-> None, rule |-> "none", loyal_draw |-> "miss"]}
    ELSE {[song |-> None, rule |-> "none", loyal_draw |-> "not drawn"]}

\* lines 77-82: the song after the loyalty rule, with which rule set it and
\* how the rule's random.random() < 0.85 came out ("not drawn" when the
\* short-circuiting `and` skipped it)
loyalty_rule(user_id, loyal, list, r) ==
    IF user_id \in DOMAIN loyal
    THEN IF r < LoyalProb
         THEN LET fav_genre == loyal[user_id]
                  genre_songs == filter_songs(list, "genre", fav_genre)
              IN  IF genre_songs # <<>>
                  THEN {[song |-> s, rule |-> "loyalty", loyal_draw |-> "hit"]
                           : s \in random_choice(genre_songs)}
                  ELSE {[song |-> None, rule |-> "none", loyal_draw |-> "hit"]}
         ELSE {[song |-> None, rule |-> "none", loyal_draw |-> "miss"]}
    ELSE {[song |-> None, rule |-> "none", loyal_draw |-> "not drawn"]}

\* mood_rule without the `if song is None:` guard: the rule runs, and may
\* replace the song, whatever the loyalty rule did
mood_rule_unguarded(st, user_id, list, r) ==
    IF user_num_of(user_id) % 7 = 0
    THEN IF r < 80
         THEN LET sad_songs == filter_songs(list, "mood", "Sad")
              IN  IF sad_songs # <<>>
                  THEN {[st EXCEPT !.song = s, !.rule = "mood"] @@
                            [mood_draw |-> "hit"]
                           : s \in random_choice(sad_songs)}
                  ELSE {st @@ [mood_draw |-> "hit"]}
         ELSE {st @@ [mood_draw |-> "miss"]}
    ELSE {st @@ [mood_draw |-> "not drawn"]}

\* lines 84-90: the song after the mood rule
mood_rule(st, user_id, list, r) ==
    IF st.song = None
    THEN LET user_num == user_num_of(user_id)
         IN  IF user_num % SadEvery = 0
             THEN IF r < SadProb
                  THEN LET sad_songs == filter_songs(list, "mood", "Sad")
                       IN  IF sad_songs # <<>>
                           THEN {[st EXCEPT !.song = s, !.rule = "mood"] @@
                                     [mood_draw |-> "hit"]
                                    : s \in random_choice(sad_songs)}
                           ELSE {st @@ [mood_draw |-> "hit"]}
                  ELSE {st @@ [mood_draw |-> "miss"]}
             ELSE {st @@ [mood_draw |-> "not drawn"]}
    ELSE {st @@ [mood_draw |-> "not drawn"]}

\* lines 92-94: the song after the fallback; "IndexError" when random.choice
\* is given an empty list
fallback_rule(st, list) ==
    IF st.song = None
    THEN IF list # <<>>
         THEN {[st EXCEPT !.song = s, !.rule = "fallback"]
                  : s \in random_choice(list)}
         ELSE {[st EXCEPT !.song = Raised("IndexError")]}
    ELSE {st}

\* lines 75-94: every outcome of the three rules for one user
select_song(user_id, loyal, list) ==
    UNION {UNION {fallback_rule(st2, list)
                     : st2 \in UNION {mood_rule(st1, user_id, list, r2)
                                         : r2 \in RandomUnit}}
              : st1 \in UNION {loyalty_rule(user_id, loyal, list, r1)
                                  : r1 \in RandomUnit}}

\* log_record taking the song's title for its id
log_record_title(user_id, song, timestamp_str, duration_sec) ==
    [user_id |-> user_id, song_id |-> song["title"],
     timestamp |-> timestamp_str, duration_sec |-> duration_sec]

\* lines 104-109: the record appended to logs
log_record(user_id, song, timestamp_str, duration_sec) ==
    [user_id |-> user_id, song_id |-> song["song_id"],
     timestamp |-> timestamp_str, duration_sec |-> duration_sec]

\* line 97: random.randint(0, total_seconds)
draw_rand_seconds(total, w) == randint(0, total, w)

\* draw_duration with the upper end one too far: random.randint(30, 301)
draw_duration_past_end(w) == randint(30, 301, w)

\* line 102: random.randint(30, 300)
draw_duration(w) == randint(MinDuration, MaxDuration, w)

\* logs_append keeping only the new record: logs = [record]
logs_append_replacing(list, record) == <<record>>

\* logs.append(record)
logs_append(list, record) == Append(list, record)

\* line 58
make_user_ids(n) == [j \in 1..n |-> user_id_of(range(n)[j])]

\* lines 54-55: no song table was passed
RaiseNoSongs ==
    /\ pc = "generate_listening_logs"
    /\ songs_df = None
    /\ pc' = "raised"
    /\ exc' = "ValueError: A songs_df DataFrame must be provided"
    /\ UNCHANGED <<num_songs, songs_df, num_logs, num_users, songs, user_ids,
                   logs, k, now, start_date, end_date, total_seconds,
                   loyal_users, iter, result>>

\* lines 57-71: the lists, the date range and the favorite genres; Nows are
\* the readings of datetime.now(), Favs the genres random.choice draws
Setup(Nows, Favs) ==
    /\ pc = "generate_listening_logs"
    /\ songs_df # None
    /\ songs' = to_dict_records(songs_df)
    /\ user_ids' = make_user_ids(num_users)
    /\ logs' = <<>>
    /\ \E t \in Nows :
          /\ now' = t
          /\ start_date' = dt_sub(t, timedelta_days(WindowDays))
          /\ end_date' = dt_add(t, timedelta_days(WindowDays))
    /\ total_seconds' = int_total_seconds(dt_diff(end_date', start_date'))
    /\ \E f \in [loyal_keys(make_user_ids(num_users)) -> Favs] :
          loyal_users' = f
    /\ k' = 0
    /\ pc' = "loop"
    /\ UNCHANGED <<num_songs, songs_df, num_logs, num_users, exc, iter,
                   result>>

\* line 74 with no users: random.choice of an empty list
RaiseNoUsers ==
    /\ pc = "loop"
    /\ k < num_logs
    /\ user_ids = <<>>
    /\ pc' = "raised"
    /\ exc' = "IndexError"
    /\ UNCHANGED <<num_songs, songs_df, num_logs, num_users, songs, user_ids,
                   logs, k, now, start_date, end_date, total_seconds,
                   loyal_users, iter, result>>

\* line 94 with no songs: random.choice of an empty list
RaiseEmptySongs ==
    /\ pc = "loop"
    /\ k < num_logs
    /\ user_ids # <<>>
    /\ \E user_id \in random_choice(user_ids) :
          \E st \in select_song(user_id, loyal_users, songs) :
             st.song = Raised("IndexError")
    /\ pc' = "raised"
    /\ exc' = "IndexError"
    /\ UNCHANGED <<num_songs, songs_df, num_logs, num_users, songs, user_ids,
                   logs, k, now, start_date, end_date, total_seconds,
                   loyal_users, iter, result>>

\* lines 73-109: one iteration of the loop; w is the width of the randint
\* draws
LogIteration(w) ==
    /\ pc = "loop"
    /\ k < num_logs
    /\ user_ids # <<>>
    /\ \E user_id \in random_choice(user_ids) :
       \E st \in select_song(user_id, loyal_users, songs) :
       \E rand_seconds \in draw_rand_seconds(total_seconds, w) :
       \E duration_sec \in draw_duration(w) :
          LET timestamp == dt_add(start_date, timedelta_seconds(rand_seconds))
              timestamp_str == strftime(timestamp)
          IN  /\ st.song # Raised("IndexError")
              /\ logs' = logs_append(logs, log_record(user_id, st.song,
                                                      timestamp_str,
                                                      duration_sec))
              /\ iter' = [user_id |-> user_id, song |-> st.song,
                          rule |-> st.rule, loyal_draw |-> st.loyal_draw,
                          mood_draw |-> st.mood_draw,
                          timestamp |-> timestamp]
    /\ k' = k + 1
    /\ UNCHANGED <<pc, num_songs, songs_df, num_logs, num_users, songs,
                   user_ids, now, start_date, end_date, total_seconds,
                   loyal_users, exc, result>>

\* line 111
Return ==
    /\ pc = "loop"
    /\ k >= num_logs
    /\ result' = DataFrameOfRecords(logs)
    /\ pc' = "returned"
    /\ UNCHANGED <<num_songs, songs_df, num_logs, num_users, songs, user_ids,
                   logs, k, now, start_date, end_date, total_seconds,
                   loyal_users, exc, iter>>

(***************************************************************************)
(* The arguments and readings the model draws.                             *)
(***************************************************************************)
\* the tables generate_song_metadata(n) returns when every artist is the
\* first of its list and every genre and mood one of the first two
SongTables(n) ==
    {song_metadata(n, as, gs, ms) :
        as \in [1..n -> {artists_list[1]}],
        gs \in [1..n -> {genres_list[1], genres_list[2]}],
        ms \in [1..n -> {moods_list[1], moods_list[2]}]}

\* readings of datetime.now(): on a whole second, just after and just before
NowEpoch == WindowDays * SecondsPerDay + SecondsPerDay - 1
NowReadings ==
    {[sec |-> NowEpoch + s, us |-> u] :
        s \in 0..MaxNowSec, u \in {0, 1, MicrosPerSecond - 1}}

InitLogs(Tables, Users, Counts) ==
    /\ pc = "generate_listening_logs"
    /\ songs_df \in Tables
    /\ num_users \in Users
    /\ num_logs \in Counts
    /\ num_songs = 0
    /\ songs = <<>> /\ user_ids = <<>> /\ logs = <<>> /\ k = 0
    /\ now = None /\ start_date = None /\ end_date = None
    /\ total_seconds = 0
    /\ loyal_users = <<>>
    /\ exc = "" /\ iter = None /\ result = None

\* Selection: every population up to MaxUsers, no table, an empty one and
\* every table of one or two songs, up to two logs; one reading of the clock
\* and one value of each randint draw.
Init ==
    InitLogs({None} \cup SongTables(0) \cup SongTables(1) \cup SongTables(2),
             0..MaxUsers, {0, 1, 2})

Next ==
    \/ RaiseNoSongs
    \/ Setup({[sec |-> NowEpoch, us |-> 0]}, random_choice(genres_list))
    \/ RaiseNoUsers
    \/ RaiseEmptySongs
    \/ LogIteration(-1)
    \/ Return

Spec == Init /\ [][Next]_vars

\* Loop: up to MaxLogs logs over at most two users, with no table, an empty
\* one and every table of one or two songs; one reading of the clock and one
\* value of each randint draw.  The function is a sequential program: it
\* keeps running while a step is enabled.
InitLoop ==
    InitLogs({None} \cup SongTables(0) \cup SongTables(1) \cup SongTables(2),
             {0, 1, 2}, 0..MaxLogs)

NextLoop ==
    \/ RaiseNoSongs
    \/ Setup({[sec |-> NowEpoch, us |-> 0]}, random_choice(genres_list))
    \/ RaiseNoUsers
    \/ RaiseEmptySongs
    \/ LogIteration(-1)
    \/ Return

SpecLoop == InitLoop /\ [][NextLoop]_vars /\ WF_vars(NextLoop)

\* Draws: up to MaxLogs logs over at most two users and one song, with the
\* clock read at every sampled instant and both randint draws within
\* EdgeWidth of their ends.
InitDraws ==
    InitLogs({None} \cup SongTables(0)
                 \cup {song_metadata(1, <<artists_list[1]>>,
                                     <<genres_list[1]>>, <<moods_list[2]>>)},
             {0, 1, 2}, 0..MaxLogs)

NextDraws ==
    \/ RaiseNoSongs
    \/ Setup(NowReadings, random_choice(genres_list))
    \/ RaiseNoUsers
    \/ RaiseEmptySongs
    \/ LogIteration(EdgeWidth)
    \/ Return

SpecDraws == InitDraws /\ [][NextDraws]_vars

\* Both biases: the smallest population with a user that is loyal and sad
\* heavy, one log, every table of one or two songs; the favorite genres are
\* drawn from the first two genres.
InitBoth ==
    InitLogs(SongTables(1) \cup SongTables(2), {LoyalEvery * SadEvery}, {1})

NextBoth ==
    \/ Setup({[sec |-> NowEpoch, us |-> 0]}, {genres_list[1], genres_list[2]})
    \/ LogIteration(-1)
    \/ Return

SpecBoth == InitBoth /\ [][NextBoth]_vars

(***************************************************************************)
(* Properties.                                                             *)
(***************************************************************************)
Chars_song == <<"s", "o", "n", "g">>
Chars_Song == <<"S", "o", "n", "g">>
Chars_user == <<"u", "s", "e", "r">>
GenreSet == {"Pop", "Rock", "Jazz", "Hip-Hop", "Classical"}
MoodSet == {"Happy", "Sad", "Energetic", "Chill"}

\* C1: generate_song_metadata(N) returns exactly N rows; row i has song_id
\* song_i and title 'Song i', so the song_ids are pairwise distinct and are
\* exactly song_1 .. song_N; every genre is one of the five genres and every
\* mood one of the four moods.
C1_SongTable ==
    pc = "metadata_returned" =>
        LET rows == to_dict_records(songs_df)
            num(i) == int(split(rows[i].song_id, "_")[2])
        IN  /\ Len(rows) = num_songs
            /\ \A c \in DOMAIN songs_df : Len(songs_df[c]) = num_songs
            /\ \A i \in 1..Len(rows) :
                  /\ split(rows[i].song_id, "_") = <<Chars_song, str(i)>>
                  /\ num(i) = i
                  /\ split(rows[i].title, " ") = <<Chars_Song, str(i)>>
                  /\ rows[i].genre \in GenreSet
                  /\ rows[i].mood \in MoodSet
            /\ \A i, j \in 1..Len(rows) :
                  i # j => rows[i].song_id # rows[j].song_id
            /\ {num(i) : i \in 1..Len(rows)} = 1..num_songs

\* a returned table of at least two rows
C1_Witness ==
    /\ pc = "metadata_returned"
    /\ num_songs >= 2
    /\ nrows(songs_df) = num_songs

\* the song table passed in is a table with at least one row
HasSongs == songs_df # None /\ nrows(songs_df) > 0

\* the song table passed in is a table with no rows
EmptyTable == songs_df # None /\ nrows(songs_df) = 0

\* the number in an identifier such as user_12
NumberOf(id) == int(split(id, "_")[2])

\* the indices of the songs with the given value under the given key
Pool(key, value) == {j \in 1..Len(songs) : songs[j][key] = value}

\* C2: at every point of generate_listening_logs, every log record appended
\* so far (and every row of the returned table) has the song_id of some row
\* of the song table passed in, whichever rule chose the song.
C2_ReferentialIntegrity ==
    /\ \A i \in 1..Len(logs) :
          /\ songs_df # None
          /\ \E j \in 1..nrows(songs_df) :
                songs_df.song_id[j] = logs[i].song_id
    /\ pc = "returned" =>
          \A i \in 1..nrows(result) :
             \E j \in 1..nrows(songs_df) :
                songs_df.song_id[j] = result.song_id[i]

\* two logs appended, the last by the mood rule, from a table of two songs
C2_Witness ==
    /\ Len(logs) = 2
    /\ nrows(songs_df) = 2
    /\ iter.rule = "mood"
    /\ logs[1].song_id # logs[2].song_id

\* C3: generate_listening_logs fails with the ValueError 'A songs_df
\* DataFrame must be provided' and produces no log record whenever the song
\* table is missing or empty, for every log count; it fails in no other case.
C3_MissingOrEmptyFails ==
    /\ (songs_df = None \/ EmptyTable) =>
          /\ logs = <<>>
          /\ pc # "returned"
          /\ pc = "raised" =>
                exc = "ValueError: A songs_df DataFrame must be provided"
    /\ pc = "raised" => (songs_df = None \/ EmptyTable)

\* C9: with a non-empty song table and at least one user no error is raised
\* and every iteration appends a log whose song is a row of the table; when
\* the loyalty draw succeeds and no song has the favorite genre, or the mood
\* draw succeeds and no song is 'Sad', a later rule chooses the song.
C9_EmptyPoolsFallThrough ==
    (HasSongs /\ num_users >= 1) =>
        /\ pc # "raised"
        /\ Len(logs) = k
        /\ k > 0 =>
              /\ \E j \in 1..Len(songs) : songs[j] = iter.song
              /\ logs[k].song_id = iter.song.song_id
              /\ (/\ iter.loyal_draw = "hit"
                  /\ Pool("genre", loyal_users[iter.user_id]) = {})
                    => iter.rule \in {"mood", "fallback"}
              /\ (iter.mood_draw = "hit" /\ Pool("mood", "Sad") = {})
                    => iter.rule = "fallback"

\* a log appended after a successful loyalty draw found no song of the
\* favorite genre
C9_Witness ==
    /\ HasSongs
    /\ k > 0
    /\ Len(logs) = k
    /\ iter.loyal_draw = "hit"
    /\ Pool("genre", loyal_users[iter.user_id]) = {}
    /\ iter.rule = "fallback"

\* C10: once the setup is done, exactly the users whose 1-indexed position is
\* divisible by 5 have a favorite genre, each one of the five genres, and no
\* iteration of the loop changes the assignment.
C10_LoyaltyAssignment ==
    /\ [](pc \in {"loop", "returned"} =>
             /\ \A j \in 1..num_users :
                   make_user_ids(num_users)[j] \in DOMAIN loyal_users
                       <=> j % 5 = 0
             /\ \A u \in DOMAIN loyal_users :
                   /\ \E j \in 1..num_users : user_ids[j] = u
                   /\ NumberOf(u) % 5 = 0
                   /\ loyal_users[u] \in GenreSet)
    /\ [][pc = "loop" => loyal_users' = loyal_users]_vars

\* two iterations done for a population with a loyal user
C10_Witness ==
    /\ pc = "returned"
    /\ k = 2
    /\ num_users >= 5
    /\ DOMAIN loyal_users # {}
    /\ \E i \in 1..2 : logs[i].user_id \in DOMAIN loyal_users

\* C4: every timestamp written to a log denotes an instant t with
\* now - 30 days <= t <= now + 30 days, for every offset drawn, 0 and
\* total_seconds included.
C4_TimestampInWindow ==
    \A i \in 1..Len(logs) :
       LET t == strptime(logs[i].timestamp)
       IN  /\ dt_le(dt_sub(now, timedelta_days(30)), t)
           /\ dt_le(t, dt_add(now, timedelta_days(30)))

C6_ReturnsExactlyM ==
    /\ []((HasSongs /\ num_users >= 1) =>
             /\ pc # "raised"
             /\ Len(logs) = k
             /\ k <= num_logs
             /\ \A i \in 1..Len(logs) :
                   /\ split(logs[i].user_id, "_")[1] = Chars_user
                   /\ NumberOf(logs[i].user_id) \in 1..num_users
             /\ pc = "returned" =>
                   /\ nrows(result) = num_logs
                   /\ to_dict_records(result) = logs)
    /\ [][(HasSongs /\ num_users >= 1 /\ pc = "loop" /\ pc' = "loop") =>
             /\ k' = k + 1
             /\ Len(logs') = Len(logs) + 1
             /\ SubSeq(logs', 1, Len(logs)) = logs
             /\ logs'[Len(logs')].user_id = iter'.user_id
             /\ logs'[Len(logs')].song_id = iter'.song.song_id]_vars
    /\ (HasSongs /\ num_users >= 1) ~> (pc = "returned")

\* a returned table of two records by different users, in the order appended
C6_Witness ==
    /\ pc = "returned"
    /\ HasSongs
    /\ num_logs = 2
    /\ nrows(result) = 2
    /\ result.user_id[1] # result.user_id[2]
    /\ result.user_id[2] = iter.user_id

\* C8: the rules are tried in the order loyalty, mood, fallback.  The loyalty
\* rule chooses exactly when the user is loyal, the loyalty draw succeeds and
\* some song has the favorite genre, and the song then has that genre; the
\* mood rule is evaluated only when the loyalty rule chose nothing, and
\* chooses exactly when the user's number is divisible by 7, the mood draw
\* succeeds and some song is 'Sad', and the song then is 'Sad'; the fallback
\* chooses exactly when neither did.  For a user divisible by 5 and by 7 a
\* successful loyalty draw with a non-empty pool is not overridden.
C8_RulePriority ==
    k > 0 =>
        LET n == NumberOf(iter.user_id)
            loyalty_chose ==
                /\ n % 5 = 0
                /\ iter.loyal_draw = "hit"
                /\ Pool("genre", loyal_users[iter.user_id]) # {}
            mood_chose ==
                /\ ~loyalty_chose
                /\ n % 7 = 0
                /\ iter.mood_draw = "hit"
                /\ Pool("mood", "Sad") # {}
        IN  /\ iter.rule = "loyalty" <=> loyalty_chose
            /\ iter.mood_draw # "not drawn" => ~loyalty_chose
            /\ iter.rule = "mood" <=> mood_chose
            /\ iter.rule = "fallback" <=> (~loyalty_chose /\ ~mood_chose)
            /\ iter.rule = "loyalty" =>
                  iter.song.genre = loyal_users[iter.user_id]
            /\ iter.rule = "mood" => (iter.song.mood = "Sad" /\ n % 7 = 0)
            /\ (n % 5 = 0 /\ n % 7 = 0 /\ loyalty_chose) =>
                  /\ iter.rule = "loyalty"
                  /\ iter.song.genre = loyal_users[iter.user_id]
            /\ logs[k].song_id = iter.song.song_id
            /\ logs[k].user_id = iter.user_id

\* user_35 kept the song of the loyalty rule, which is not 'Sad', although
\* the table has a 'Sad' song
C8_Witness ==
    /\ k > 0
    /\ NumberOf(iter.user_id) = 35
    /\ iter.rule = "loyalty"
    /\ iter.song.mood # "Sad"
    /\ Pool("mood", "Sad") # {}

====
